---- MODULE Spec2Model ----
(***************************************************************************)
(* Model of the quiz-solving agent: the task dispatcher (main.py), the     *)
(* reason-act loop (agent.py, solve_quiz_task) and the tool executor       *)
(* (tools.py).  A run of solve_quiz_task is a process with a program       *)
(* counter; the reasoning backend, the web and the submission endpoint are *)
(* the environment, whose answers are read from a script chosen in the     *)
(* initial state.                                                          *)
(***************************************************************************)
EXTENDS Integers, Sequences, FiniteSets, TLC

VARIABLES
    now,        \* time.time(), in seconds
    script,     \* the environment's answers, one turn per loop step (cyclic)
    inbound,    \* POST /solve requests still to arrive
    responses,  \* HTTP responses of the dispatcher, in order
    runs,       \* the calls of solve_quiz_task, by run id
    files       \* the working directory shared by all tools

vars == <<now, script, inbound, responses, runs, files>>

(***************************************************************************)
(* Program constants                                                       *)
(***************************************************************************)
max_steps == 15
DeadlineWindow_Short == 170 \div 60     \* the window taken in minutes
DeadlineWindow == 170       \* main.py: deadline = time.time() + 170
NewDeadlineWindow_Spent == 170 - 170
NewDeadlineWindow == 170    \* agent.py: new_deadline = time.time() + 170
MY_SECRET == "s3cret"

(***************************************************************************)
(* Bounds of the model                                                     *)
(***************************************************************************)
MaxTime == 260          \* the clock stops advancing past this value
TickLen == 85           \* seconds added by one tick of the clock
MaxRuns == 2            \* the submission endpoint hands out next urls
                        \* only while fewer than MaxRuns runs exist
MaxScript == 2          \* longest environment script

(***************************************************************************)
(* Text.  A Python str is modelled at two levels: words whose characters   *)
(* the program never inspects are TLA+ strings, texts the program takes    *)
(* apart (urls) are sequences of characters.                               *)
(***************************************************************************)
Chars(w) ==
    CASE w = "http://q/a/" -> <<"h","t","t","p",":","/","/","q","/","a","/">>
      [] w = "http://q/b"  -> <<"h","t","t","p",":","/","/","q","/","b">>
      [] w = "http://q/s"  -> <<"h","t","t","p",":","/","/","q","/","s">>
      [] w = "http://q/f"  -> <<"h","t","t","p",":","/","/","q","/","f">>
      [] w = "/s"          -> <<"/","s">>
      [] w = "f"           -> <<"f">>
      [] w = "//r/f"       -> <<"/","/","r","/","f">>
      [] w = "ftp://r/f"   -> <<"f","t","p",":","/","/","r","/","f">>
      [] w = "httpd/f"     -> <<"h","t","t","p","d","/","f">>
      [] w = "http://q/f.csv" ->
             <<"h","t","t","p",":","/","/","q","/","f",".","c","s","v">>
      [] OTHER             -> <<>>

Letters == {"h","t","p","f","q","r","a","b","s","d"}

\* str.startswith('http')
StartsWithHttp(u) ==
    Len(u) >= 4 /\ SubSeq(u, 1, 4) = <<"h","t","t","p">>

\* position of the first occurrence of c in u at or after i; 0 when absent
RECURSIVE Find(_, _, _)
Find(u, c, i) ==
    IF i > Len(u) THEN 0
    ELSE IF u[i] = c THEN i
    ELSE Find(u, c, i + 1)

\* position of the last occurrence of c in u at or before i; 0 when absent
RECURSIVE FindLast(_, _, _)
FindLast(u, c, i) ==
    IF i < 1 THEN 0
    ELSE IF u[i] = c THEN i
    ELSE FindLast(u, c, i - 1)

\* urlsplit: length of the scheme of u (0 when u has no scheme)
SchemeLen(u) ==
    LET i == Find(u, ":", 1)
    IN  IF i > 1 /\ \A j \in 1..(i - 1) : u[j] \in Letters THEN i - 1 ELSE 0

\* urlsplit: u without "scheme:"
AfterScheme(u) ==
    IF SchemeLen(u) = 0 THEN u ELSE SubSeq(u, SchemeLen(u) + 2, Len(u))

HasNetloc(r) == Len(r) >= 2 /\ r[1] = "/" /\ r[2] = "/"

\* urlsplit: "//netloc" of a scheme-less remainder r (<<>> when none)
NetlocPart(r) ==
    IF ~HasNetloc(r) THEN <<>>
    ELSE LET e == Find(r, "/", 3)
         IN  IF e = 0 THEN r ELSE SubSeq(r, 1, e - 1)

\* urlsplit: the path of a scheme-less remainder r
PathPart(r) == SubSeq(r, Len(NetlocPart(r)) + 1, Len(r))

\* urllib.parse.urljoin(base, url), for urls without query, fragment and
\* dot segments
urljoin(base, url) ==
    LET bscheme == SubSeq(base, 1, SchemeLen(base))
        brest   == AfterScheme(base)
        bnet    == NetlocPart(brest)
        bpath   == PathPart(brest)
        scheme  == SubSeq(url, 1, SchemeLen(url))
        rest    == AfterScheme(url)
        path    == PathPart(rest)
        cut     == FindLast(bpath, "/", Len(bpath))
        merged  == IF path = <<>> THEN bpath
                   ELSE IF path[1] = "/" THEN path
                   ELSE IF bpath = <<>> THEN <<"/">> \o path
                   ELSE SubSeq(bpath, 1, cut) \o path
    IN  IF base = <<>> THEN url
        ELSE IF url = <<>> THEN base
        ELSE IF SchemeLen(url) > 0 /\ scheme # bscheme THEN url
        ELSE IF HasNetloc(rest) THEN bscheme \o <<":">> \o rest
        ELSE bscheme \o <<":">> \o bnet \o merged

(***************************************************************************)
(* JSON values, as json.loads returns them.  t is the Python type; s holds *)
(* a word or the digits of a number, u the characters of a text, d the     *)
(* items of a dict.                                                        *)
(***************************************************************************)
None == [t |-> "null", s |-> "", u |-> <<>>, d |-> <<>>]
Word(w) == [t |-> "str", s |-> w, u |-> <<>>, d |-> <<>>]
Text(w) == [t |-> "str", s |-> "", u |-> Chars(w), d |-> <<>>]
TextOf(u) == [t |-> "str", s |-> "", u |-> u, d |-> <<>>]
Num(n) == [t |-> "int", s |-> n, u |-> <<>>, d |-> <<>>]
Dict(f) == [t |-> "dict", s |-> "", u |-> <<>>, d |-> f]

\* isinstance(v, dict)
IsDict(v) == v.t = "dict"
IsStr(v) == v.t = "str"

\* k in v, for a dict v
Has(v, k) == k \in DOMAIN v.d

\* v.get(k), for a dict v
Get(v, k) == IF Has(v, k) THEN v.d[k] ELSE None

\* bool(v)
Truthy(v) ==
    CASE v.t = "null" -> FALSE
      [] v.t = "str"  -> v.s # "" \/ v.u # <<>>
      [] v.t = "int"  -> v.s # "0"
      [] v.t = "dict" -> DOMAIN v.d # {}
      [] OTHER        -> TRUE

\* v[k] = x, for a dict v
Put(v, k, x) ==
    Dict([j \in DOMAIN v.d \cup {k} |-> IF j = k THEN x ELSE v.d[j]])

(***************************************************************************)
(* Observations.  kind tells which format string of the source produced    *)
(* the text; word, text and resp are the values interpolated into it.      *)
(***************************************************************************)
NoResp == [json |-> "none", correct |-> "absent", url |-> <<>>]

\* src is the run that wrote the file content an observation shows (0: none)
Obs(kind, word, text) ==
    [kind |-> kind, word |-> word, text |-> text, resp |-> NoResp, src |-> 0]

\* the text a value is rendered as inside an f-string
Render(v) == IF v.u # <<>> THEN v.u ELSE <<v.t, v.s>>

(***************************************************************************)
(* Action normalisation and dispatch (agent.py, the second try block).     *)
(* Dispatch returns what the block does with the model's action: raise     *)
(* before any tool is called, report an unknown tool, or call a tool.      *)
(***************************************************************************)
Raise(e) == [outcome |-> "raise", err |-> e, tool |-> None, args |-> None]
Unknown_Anonymous(tn) ==
    [outcome |-> "unknown", err |-> "", tool |-> None, args |-> None]
Unknown(tn) == [outcome |-> "unknown", err |-> "", tool |-> tn, args |-> None]
Call(tn, a) == [outcome |-> "call", err |-> "", tool |-> tn, args |-> a]

\* action_obj.get("tool") or action_obj.get("type")
ToolName(a) ==
    IF Truthy(Get(a, "tool")) THEN Get(a, "tool") ELSE Get(a, "type")

\* the parameter mapping: parameters, else args, else kwargs, else the action
ArgsOf_ArgsFirst(a) ==
    IF Has(a, "args") THEN Get(a, "args")
    ELSE IF Has(a, "parameters") THEN Get(a, "parameters")
    ELSE IF Has(a, "kwargs") THEN Get(a, "kwargs")
    ELSE a

ArgsOf(a) ==
    IF Has(a, "parameters") THEN Get(a, "parameters")
    ELSE IF Has(a, "args") THEN Get(a, "args")
    ELSE IF Has(a, "kwargs") THEN Get(a, "kwargs")
    ELSE a

\* the key of the url-bearing parameter of a tool ("" when it has none)
UrlKey(tn) ==
    IF tn \in {Word("scrape_website"), Word("download_and_read_file")}
        THEN "url"
    ELSE IF tn = Word("submit_answer") THEN "submit_url"
    ELSE ""

\* relative-url normalisation of args[key]; args is returned unchanged when
\* the value is falsy or starts with 'http'
Normalise(args, key, url) ==
    LET v == Get(args, key)
    IN  IF Truthy(v) /\ ~StartsWithHttp(v.u)
            THEN Put(args, key, TextOf(urljoin(url, v.u)))
            ELSE args

\* the keys a tool reads with args[...]
Required(tn) ==
    CASE tn = Word("scrape_website")         -> {"url"}
      [] tn = Word("download_and_read_file") -> {"url"}
      [] tn = Word("read_file")              -> {"filename"}
      [] tn = Word("write_to_file")          -> {"filename", "content"}
      [] tn = Word("run_python_code")        -> {}
      [] tn = Word("submit_answer")          -> {"submit_url", "answer_payload"}
      [] OTHER                               -> {}

Tools ==
    {Word("scrape_website"), Word("download_and_read_file"),
     Word("read_file"), Word("write_to_file"), Word("run_python_code"),
     Word("submit_answer")}

Dispatch(action_obj, url) ==
    IF ~IsDict(action_obj) THEN Raise("ValueError: not a dict")
    ELSE LET tool_name == ToolName(action_obj)
             args      == ArgsOf(action_obj)
             key       == UrlKey(tool_name)
         IN  IF ~Truthy(tool_name) THEN Raise("ValueError: no tool")
             ELSE IF tool_name \notin Tools THEN Unknown(tool_name)
             ELSE IF ~IsDict(args)
                 \* args.get(...) or args[...] on a value that is no dict
                 THEN Raise("AttributeError or TypeError")
             ELSE IF key # "" /\ Truthy(Get(args, key))
                              /\ ~IsStr(Get(args, key))
                 \* call_url.startswith on a value that is no str
                 THEN Raise("AttributeError")
             ELSE LET nargs == IF key = "" THEN args
                               ELSE Normalise(args, key, url)
                  IN  IF \E k \in Required(tool_name) : ~Has(nargs, k)
                          THEN Raise("KeyError")
                      ELSE Call(tool_name, nargs)

(***************************************************************************)
(* The environment.  A turn says what the outside world answers during one *)
(* step of the loop: llm is the outcome of the request to the reasoning    *)
(* backend, reply the JSON object found in its text, net the outcome of    *)
(* the tool's own network or subprocess call, ctype the markers found in   *)
(* the content-type of a download, resp the body of the submission         *)
(* endpoint's response.                                                    *)
(***************************************************************************)
Turn(llm, reply, net, ctype, resp) ==
    [llm |-> llm, reply |-> reply, net |-> net, ctype |-> ctype, resp |-> resp]

\* a submission response body
Body(json, correct, url) == [json |-> json, correct |-> correct, url |-> url]

(***************************************************************************)
(* The tool executor (tools.py).  Every operator returns                   *)
(* [raised, obs, files]: whether the tool raised past its boundary, the    *)
(* text it returned, and the working directory it leaves.                  *)
(***************************************************************************)
Returned(o, fs) == [raised |-> FALSE, obs |-> o, files |-> fs]
Raised(e, fs) == [raised |-> TRUE, obs |-> Obs("raised", e, <<>>), files |-> fs]

\* a file's content: the run that wrote it and the pieces written
Content(by, what) == [by |-> by, what |-> what]

WriteFile_Keep(fs, name, c) ==
    [n \in DOMAIN fs \cup {name} |-> IF n \in DOMAIN fs THEN fs[n] ELSE c]
WriteFile(fs, name, c) ==
    [n \in DOMAIN fs \cup {name} |-> IF n = name THEN c ELSE fs[n]]

scrape_website(url, net, fs) ==
    IF IsStr(url) /\ Truthy(url) /\ net = "ok"
        THEN Returned(Obs("html", "", url.u), fs)
        ELSE Returned(Obs("scrape_error", "", Render(url)), fs)

\* the fixed file name of a content type (tools.py, the if/elif chain)
CategoryName(ctype) ==
    IF "javascript" \in ctype THEN Word("temp_utils.js")
    ELSE IF "csv" \in ctype THEN Word("temp_data.csv")
    ELSE IF "json" \in ctype THEN Word("temp_data.json")
    ELSE IF "text/plain" \in ctype THEN Word("temp_log.txt")
    ELSE Word("temp_downloaded_file")

IsTextual(ctype) ==
    ctype \cap {"text/plain", "javascript", "json", "csv"} # {}

\* url.split('/')[-1]
LastSegment(u) == SubSeq(u, FindLast(u, "/", Len(u)) + 1, Len(u))

download_and_read_file(url, net, ctype, id, fs) ==
    IF ~(IsStr(url) /\ Truthy(url) /\ net = "ok")
        THEN Returned(Obs("download_error", "", Render(url)), fs)
    ELSE IF IsTextual(ctype)
        THEN LET filename == CategoryName(ctype)
             IN  Returned(Obs("saved", filename.s, url.u),
                          WriteFile(fs, filename, Content(id, <<"download">>)))
    ELSE IF "application/pdf" \in ctype
        THEN Returned(Obs("pdf", "", url.u), fs)
    ELSE IF ctype \cap {"audio/", "video/"} # {}
        THEN Returned(Obs("media", "", url.u), fs)
    ELSE LET seg == LastSegment(url.u)
             filename == IF seg = <<>> THEN Word("temp_binary_file")
                         ELSE TextOf(seg)
         IN  Returned(Obs("binary_saved", filename.s, filename.u),
                      WriteFile(fs, filename, Content(id, <<"download">>)))

read_file(filename, fs) ==
    IF IsStr(filename) /\ filename \in DOMAIN fs
        THEN Returned([Obs("file_content", "", Render(filename))
                          EXCEPT !.src = fs[filename].by], fs)
        ELSE Returned(Obs("read_error", "", Render(filename)), fs)

write_to_file(filename, content, mode, id, fs) ==
    IF ~(IsStr(filename) /\ Truthy(filename)) \/ mode \notin {Word("w"), Word("a")}
        THEN Returned(Obs("write_error", "", Render(filename)), fs)
    ELSE LET old == IF mode = Word("a") /\ filename \in DOMAIN fs
                        THEN fs[filename].what ELSE <<>>
         IN  IF ~IsStr(content)
                 \* open() succeeded, f.write raised
                 THEN Returned(Obs("write_error", "", Render(filename)),
                               WriteFile(fs, filename, Content(id, old)))
                 ELSE Returned(Obs("written", "", Render(filename)),
                               WriteFile(fs, filename,
                                         Content(id, old \o <<content.s>>)))

run_python_code(code_string, filename, net, fs) ==
    IF Truthy(filename)
        THEN IF IsStr(filename) /\ filename \in DOMAIN fs /\ net = "ok"
                 THEN Returned([Obs("file_executed", "", Render(filename))
                                   EXCEPT !.src = fs[filename].by], fs)
                 ELSE Returned(Obs("file_exec_error", "", Render(filename)), fs)
    ELSE IF Truthy(code_string)
        THEN IF ~IsStr(code_string)
                 \* code_string.replace, outside the tool's try
                 THEN Raised("AttributeError", fs)
             ELSE IF net = "ok"
                 THEN Returned(Obs("code_executed", code_string.s, <<>>), fs)
             \* exec of code that raises SystemExit: not an Exception
             ELSE IF net = "exit" THEN Raised("SystemExit", fs)
             ELSE Returned(Obs("code_error", code_string.s, <<>>), fs)
    ELSE Returned(Obs("no_code", "", <<>>), fs)

\* {"email": ..., "secret": ..., "url": ..., **answer_payload}
FinalPayload(answer_payload, email, secret, task_url) ==
    LET own == [email |-> Word(email), secret |-> Word(secret),
                url |-> TextOf(task_url)]
    IN  Dict([k \in DOMAIN own \cup DOMAIN answer_payload.d |->
                 IF k \in DOMAIN answer_payload.d THEN answer_payload.d[k]
                 ELSE own[k]])

\* what the submission endpoint answers: it names a next url only while
\* fewer than MaxRuns runs exist
Served(resp, nruns) ==
    IF nruns < MaxRuns THEN resp ELSE [resp EXCEPT !.url = <<>>]

\* returns the text and the payload POSTed (None when nothing was sent)
submit_answer(submit_url, answer_payload, email, secret, task_url, net, resp) ==
    IF ~IsDict(answer_payload)
        THEN [obs |-> Obs("submit_error", "", Render(submit_url)), sent |-> None]
    ELSE LET final_payload ==
                 FinalPayload(answer_payload, email, secret, task_url)
         IN  IF ~(IsStr(submit_url) /\ Truthy(submit_url))
                 THEN [obs |-> Obs("submit_error", "", Render(submit_url)),
                       sent |-> None]
             ELSE IF net # "ok"
                 THEN [obs |-> Obs("submit_error", "", Render(submit_url)),
                       sent |-> final_payload]
             ELSE [obs |-> [Obs("submit_response", "", submit_url.u)
                               EXCEPT !.resp = resp],
                   sent |-> final_payload]

(***************************************************************************)
(* Submission resolution (agent.py, the try block after submit_answer).    *)
(***************************************************************************)
\* json.loads of the text after "Submission response:" returns a dict
Decodes_Lenient(observation) ==
    observation.kind = "submit_response" /\ observation.resp.json # "invalid"
Decodes(observation) ==
    observation.kind = "submit_response" /\ observation.resp.json = "object"

Resolution_NoChain(observation) ==
    LET is_correct == observation.resp.correct = "true"
        new_url    == observation.resp.url
    IN  IF ~Decodes(observation) THEN "fatal"
        ELSE IF is_correct THEN "complete"
        ELSE IF new_url # <<>> THEN "redirect" ELSE "retry"

Resolution_NoRetry(observation) ==
    LET is_correct == observation.resp.correct = "true"
        new_url    == observation.resp.url
    IN  IF ~Decodes(observation) THEN "fatal"
        ELSE IF is_correct
            THEN IF new_url # <<>> THEN "next" ELSE "complete"
        ELSE IF new_url # <<>> THEN "redirect" ELSE "fatal"

Resolution_NoRedirect(observation) ==
    LET is_correct == observation.resp.correct = "true"
        new_url    == observation.resp.url
    IN  IF ~Decodes(observation) THEN "fatal"
        ELSE IF is_correct
            THEN IF new_url # <<>> THEN "next" ELSE "complete"
        ELSE "retry"

Resolution(observation) ==
    LET is_correct == observation.resp.correct = "true"
        new_url    == observation.resp.url
    IN  IF ~Decodes(observation) THEN "fatal"
        ELSE IF is_correct
            THEN IF new_url # <<>> THEN "next" ELSE "complete"
        ELSE IF new_url # <<>> THEN "redirect" ELSE "retry"

(***************************************************************************)
(* A run of solve_quiz_task                                                *)
(***************************************************************************)
SystemTurn == [role |-> "system", obs |-> Obs("SYSTEM_PROMPT", "", <<>>),
               json |-> None]
UserTurn(observation) == [role |-> "user", obs |-> observation, json |-> None]
ModelTurn(json_str) == [role |-> "model", obs |-> Obs("", "", <<>>),
                        json |-> json_str]

NoCall == [tool |-> None, args |-> None]

\* the frame of a call solve_quiz_task(email, secret, url, deadline), before
\* its first statement; parent is the run whose frame made the call (0: the
\* background task of the dispatcher)
NewRun(email, secret, url, deadline, parent) ==
    [email |-> email, secret |-> secret, url |-> url, deadline |-> deadline,
     parent |-> parent, born |-> now,
     pc |-> "scheduled", exit |-> "",
     step |-> 0, observation |-> Obs("", "", <<>>), history |-> <<>>,
     action_obj |-> None, call |-> NoCall, sent |-> None,
     scrapes |-> 0, requests |-> 0, calls |-> 0, spawned |-> 0]

RunIds == DOMAIN runs

\* the turn of the script that answers step n of a run
TurnAt(n) == script[((n - 1) % Len(script)) + 1]

(***************************************************************************)
(* main.py: POST /solve                                                    *)
(***************************************************************************)
\* task.secret != MY_SECRET, negated
Authorized_Any(task) == TRUE
Authorized(task) == task.secret = MY_SECRET

start_quiz_solver ==
    /\ inbound # <<>>
    /\ LET task == Head(inbound)
       IN  /\ inbound' = Tail(inbound)
           /\ IF ~Authorized(task)
                  THEN /\ responses' = Append(responses,
                              [status |-> 403, detail |-> "Invalid secret",
                               task |-> task, at |-> now, run |-> 0])
                       /\ runs' = runs
                  ELSE LET deadline == now + DeadlineWindow
                       IN  /\ runs' = Append(runs,
                                  NewRun(task.email, task.secret, task.url,
                                         deadline, 0))
                           /\ responses' = Append(responses,
                                  [status |-> 200,
                                   detail |-> "Task accepted. Processing in background.",
                                   task |-> task, at |-> now,
                                   run |-> Len(runs) + 1])
    /\ UNCHANGED <<now, script, files>>

(***************************************************************************)
(* agent.py: solve_quiz_task                                               *)
(***************************************************************************)
\* lines 83-96: the history is created and the task url is scraped
InitialScrape_Abort(i) ==
    /\ runs[i].pc = "scheduled"
    /\ \E net \in {"ok", "fail"} :
          LET r == scrape_website(TextOf(runs[i].url), net, files)
          IN  runs' = [runs EXCEPT ![i].history = <<SystemTurn>>,
                                   ![i].observation = r.obs,
                                   ![i].scrapes = @ + 1,
                                   ![i].pc = IF net = "ok" THEN "top"
                                             ELSE "done",
                                   ![i].exit = IF net = "ok" THEN ""
                                               ELSE "fatal"]
    /\ UNCHANGED <<now, script, inbound, responses, files>>

InitialScrape(i) ==
    /\ runs[i].pc = "scheduled"
    /\ \E net \in {"ok", "fail"} :
          LET r == scrape_website(TextOf(runs[i].url), net, files)
          IN  runs' = [runs EXCEPT ![i].history = <<SystemTurn>>,
                                   ![i].observation = r.obs,
                                   ![i].scrapes = @ + 1,
                                   ![i].pc = "top"]
    /\ UNCHANGED <<now, script, inbound, responses, files>>

\* range(1, max_steps) has no value left for the step after `step`
Exhausted_Inclusive(step) == step + 1 > max_steps
Exhausted(step) == step + 1 > max_steps - 1

\* deadline and time.time() > deadline
Expired_Never(deadline) == FALSE
Expired(deadline) == deadline # 0 /\ now > deadline

\* the first except block: the error becomes the observation, continue
ModelFailed_Break(r, e) ==
    [r EXCEPT !.observation = Obs("llm_error", e, <<>>),
              !.pc = "done", !.exit = "fatal"]
ModelFailed_Pop(r, e) ==
    [r EXCEPT !.observation = Obs("llm_error", e, <<>>), !.pc = "top",
              !.history = SubSeq(@, 1, Len(@) - 1)]
ModelFailed_Stale(r, e) ==
    LET d == Dispatch(r.action_obj, r.url)
    IN  IF d.outcome = "call"
            THEN [r EXCEPT !.observation = Obs("llm_error", e, <<>>),
                           !.call = [tool |-> d.tool, args |-> d.args],
                           !.calls = @ + 1, !.pc = "in_tool"]
            ELSE [r EXCEPT !.observation = Obs("llm_error", e, <<>>),
                           !.pc = "top"]
ModelFailed_Reply(r, e) ==
    [r EXCEPT !.observation = Obs("llm_error", e, <<>>), !.pc = "top",
              !.history = Append(@, ModelTurn(None))]
ModelFailed_InPlace(r, e) ==
    [r EXCEPT !.observation = Obs("llm_error", e, <<>>),
              !.pc = "awaiting_model"]
ModelFailed(r, e) ==
    [r EXCEPT !.observation = Obs("llm_error", e, <<>>), !.pc = "top"]

\* `except Exception` does not catch e: it leaves solve_quiz_task
Escapes(e) == e = "SystemExit"

\* the last except block: the error becomes the observation, the loop goes on
ActionFailed(r, e) ==
    [r EXCEPT !.observation = Obs("action_error", e, <<>>), !.pc = "top"]

\* lines 99-124: the head of the for loop, the deadline check, the user
\* turn and the request to the reasoning backend
LoopTop(i) ==
    /\ runs[i].pc = "top"
    /\ LET step == runs[i].step + 1
       IN  IF Exhausted(runs[i].step)
               THEN runs' = [runs EXCEPT ![i].pc = "done",
                                         ![i].exit = "exhausted"]
           ELSE IF Expired(runs[i].deadline)
               THEN runs' = [runs EXCEPT ![i].step = step,
                                         ![i].pc = "done",
                                         ![i].exit = "deadline"]
           ELSE runs' = [runs EXCEPT
                   ![i].step = step,
                   ![i].history = Append(@, UserTurn(runs[i].observation)),
                   ![i].requests = @ + 1,
                   ![i].pc = "awaiting_model"]
    /\ UNCHANGED <<now, script, inbound, responses, files>>

\* lines 125-186: the backend's answer is parsed, the action normalised and
\* the tool chosen
ModelResponse(i) ==
    /\ runs[i].pc = "awaiting_model"
    /\ LET turn == TurnAt(runs[i].step)
       IN  IF turn.llm # "ok"
               THEN runs' = [runs EXCEPT ![i] = ModelFailed(@, turn.llm)]
           ELSE LET action_obj == Get(turn.reply, "action")
                    d == Dispatch(action_obj, runs[i].url)
                    h == Append(runs[i].history, ModelTurn(turn.reply))
                IN  CASE d.outcome = "raise" ->
                           runs' = [runs EXCEPT ![i] =
                               ActionFailed([@ EXCEPT !.history = h,
                                                      !.action_obj = action_obj],
                                            d.err)]
                      [] d.outcome = "unknown" ->
                           runs' = [runs EXCEPT
                               ![i].history = h,
                               ![i].action_obj = action_obj,
                               ![i].observation =
                                   Obs("unknown_tool", d.tool.s, d.tool.u),
                               ![i].pc = "top"]
                      [] d.outcome = "call" ->
                           runs' = [runs EXCEPT
                               ![i].history = h,
                               ![i].action_obj = action_obj,
                               ![i].call = [tool |-> d.tool, args |-> d.args],
                               ![i].calls = @ + 1,
                               ![i].pc = "in_tool"]
    /\ UNCHANGED <<now, script, inbound, responses, files>>

\* lines 187-204: the tools other than submit_answer
Invoke(i, call, turn) ==
    LET a == call.args
    IN  CASE call.tool = Word("scrape_website") ->
                scrape_website(Get(a, "url"), turn.net, files)
          [] call.tool = Word("download_and_read_file") ->
                download_and_read_file(Get(a, "url"), turn.net, turn.ctype, i,
                                       files)
          [] call.tool = Word("read_file") ->
                read_file(Get(a, "filename"), files)
          [] call.tool = Word("write_to_file") ->
                write_to_file(Get(a, "filename"), Get(a, "content"),
                              IF Has(a, "mode") THEN Get(a, "mode")
                              ELSE Word("w"), i, files)
          [] OTHER ->
                run_python_code(Get(a, "code_string"), Get(a, "filename"),
                                turn.net, files)

\* lines 187-260: the tool returns; a submission is resolved
ToolReturn(i) ==
    /\ runs[i].pc = "in_tool"
    /\ LET turn == TurnAt(runs[i].step)
           call == runs[i].call
       IN  IF call.tool # Word("submit_answer")
               THEN LET r == Invoke(i, call, turn)
                    IN  /\ files' = r.files
                        /\ runs' = [runs EXCEPT ![i] =
                               IF r.raised /\ Escapes(r.obs.word)
                                   THEN [@ EXCEPT !.call = NoCall,
                                                  !.pc = "done",
                                                  !.exit = "crashed"]
                               ELSE IF r.raised
                                   THEN ActionFailed([@ EXCEPT !.call = NoCall],
                                                     r.obs.word)
                                   ELSE [@ EXCEPT !.observation = r.obs,
                                                  !.call = NoCall,
                                                  !.pc = "top"]]
           ELSE LET r == submit_answer(Get(call.args, "submit_url"),
                                       Get(call.args, "answer_payload"),
                                       runs[i].email, runs[i].secret,
                                       runs[i].url, turn.net,
                                       Served(turn.resp, Len(runs)))
                    res == Resolution(r.obs)
                    me == [runs[i] EXCEPT !.observation = r.obs,
                                          !.sent = r.sent,
                                          !.call = NoCall]
                IN  /\ files' = files
                    /\ CASE res = "fatal" ->
                              runs' = [runs EXCEPT ![i] =
                                  [me EXCEPT !.pc = "done", !.exit = "fatal"]]
                         [] res = "complete" ->
                              runs' = [runs EXCEPT ![i] =
                                  [me EXCEPT !.pc = "done", !.exit = "complete"]]
                         [] res = "retry" ->
                              runs' = [runs EXCEPT ![i] =
                                  [me EXCEPT !.pc = "top"]]
                         [] OTHER ->
                              LET new_deadline == now + NewDeadlineWindow
                              IN  runs' = Append(
                                      [runs EXCEPT ![i] =
                                          [me EXCEPT !.pc = "in_child",
                                                     !.exit = res,
                                                     !.spawned = @ + 1]],
                                      NewRun(runs[i].email, runs[i].secret,
                                             r.obs.resp.url, new_deadline, i))
    /\ UNCHANGED <<now, script, inbound, responses>>

\* lines 231-235 and 243-244: the recursive call returns and the loop breaks
ChildReturn(i) ==
    /\ runs[i].pc = "in_child"
    /\ \E c \in RunIds : runs[c].parent = i /\ runs[c].pc = "done"
    /\ runs' = [runs EXCEPT ![i].pc = "done"]
    /\ UNCHANGED <<now, script, inbound, responses, files>>

\* the clock
Tick ==
    /\ now + TickLen <= MaxTime
    /\ now' = now + TickLen
    /\ UNCHANGED <<script, inbound, responses, runs, files>>

Next ==
    \/ start_quiz_solver
    \/ \E i \in RunIds : InitialScrape(i)
    \/ \E i \in RunIds : LoopTop(i)
    \/ \E i \in RunIds : ModelResponse(i)
    \/ \E i \in RunIds : ToolReturn(i)
    \/ \E i \in RunIds : ChildReturn(i)
    \/ Tick

(***************************************************************************)
(* Environments: the turns a script is made of                             *)
(***************************************************************************)
Reply(action) == Dict([action |-> action])
Act(tool, parameters) ==
    Dict([tool |-> Word(tool), parameters |-> Dict(parameters)])

NoBody == Body("none", "absent", <<>>)
Answer(tool, parameters, net) ==
    Turn("ok", Reply(Act(tool, parameters)), net, {}, NoBody)
Submission(submit_url, net, resp) ==
    Turn("ok",
         Reply(Act("submit_answer",
                   [submit_url |-> submit_url,
                    answer_payload |-> Dict([answer |-> Num("42")])])),
         net, {}, resp)
Failure(llm) == Turn(llm, None, "ok", {}, NoBody)

WriteNote ==
    Answer("write_to_file",
           [filename |-> Word("notes.txt"), content |-> Word("GOAL=sum")], "ok")
SubmitWrong == Submission(Text("/s"), "ok", Body("object", "false", <<>>))
SubmitNext ==
    Submission(Text("http://q/s"), "ok",
               Body("object", "true", Chars("http://q/b")))
SubmitLast == Submission(Text("/s"), "ok", Body("object", "true", <<>>))
SubmitRedirect ==
    Submission(Text("/s"), "ok", Body("object", "false", Chars("http://q/b")))
SubmitGarbled == Submission(Text("/s"), "ok", Body("invalid", "absent", <<>>))

\* the turns of the loop-control environment
LoopTurns == {WriteNote, Failure("transport"), SubmitWrong, SubmitNext}

\* malformed model turns: the request fails, the text holds no JSON object,
\* the object does not decode, or it carries no usable action
NoAction == Turn("ok", Dict(<<>>), "ok", {}, NoBody)
NullAction == Turn("ok", Reply(None), "ok", {}, NoBody)
TextAction == Turn("ok", Reply(Word("scrape_website")), "ok", {}, NoBody)
NoToolKey ==
    Turn("ok", Reply(Dict([parameters |-> Dict([url |-> Text("f")])])),
         "ok", {}, NoBody)
MalformedTurns ==
    {Failure("transport"), Failure("status"), Failure("nojson"),
     Failure("badjson"), NoAction, NullAction, TextAction, NoToolKey}
ModelTurns == MalformedTurns \cup {WriteNote, SubmitNext}

\* decisions that name no registered tool
UnknownTool == Answer("delete_file", [filename |-> Word("notes.txt")], "ok")
UnknownType ==
    Turn("ok", Reply(Dict([type |-> Word("browse"),
                           args |-> Dict([url |-> Text("f")])])),
         "ok", {}, NoBody)
UnknownBare ==
    Turn("ok", Reply(Dict([tool |-> Word("think"), parameters |-> Word("x")])),
         "ok", {}, NoBody)
UnknownNumber ==
    Turn("ok", Reply(Dict([tool |-> Num("7")])), "ok", {}, NoBody)
UnknownTurns == {UnknownTool, UnknownType, UnknownBare, UnknownNumber}
UnknownEnv == UnknownTurns \cup {WriteNote, SubmitNext}

\* decisions with a dispatch error
ScrapeNoUrl == Answer("scrape_website", <<>>, "ok")
ReadArgsText ==
    Turn("ok", Reply(Dict([tool |-> Word("read_file"),
                           parameters |-> Word("notes.txt")])),
         "ok", {}, NoBody)
DownloadUrlNumber == Answer("download_and_read_file", [url |-> Num("7")], "ok")
WriteContentNumber ==
    Answer("write_to_file",
           [filename |-> Word("notes.txt"), content |-> Num("7")], "ok")
RunCodeNumber == Answer("run_python_code", [code_string |-> Num("7")], "ok")
SubmitNoPayload ==
    Turn("ok", Reply(Act("submit_answer", [submit_url |-> Text("/s")])),
         "ok", {}, Body("object", "false", <<>>))
SubmitPayloadText ==
    Turn("ok",
         Reply(Act("submit_answer",
                   [submit_url |-> Text("/s"), answer_payload |-> Word("42")])),
         "ok", {}, Body("object", "false", <<>>))
SubmitUrlNull ==
    Turn("ok",
         Reply(Act("submit_answer",
                   [submit_url |-> None,
                    answer_payload |-> Dict([answer |-> Num("42")])])),
         "ok", {}, Body("object", "false", <<>>))
DispatchErrorTurns ==
    {TextAction, NoToolKey, ScrapeNoUrl, ReadArgsText, DownloadUrlNumber,
     WriteContentNumber, RunCodeNumber, SubmitNoPayload, SubmitPayloadText,
     SubmitUrlNull}
ShapeEnv == DispatchErrorTurns \cup {SubmitNext}

\* transport errors
ScrapeDown == Answer("scrape_website", [url |-> Text("f")], "fail")
ScrapeUp == Answer("scrape_website", [url |-> Text("f")], "ok")
DownloadDown == Answer("download_and_read_file", [url |-> Text("f")], "fail")
SubmitDown == Submission(Text("/s"), "fail", NoBody)
TransportTurns ==
    {Failure("transport"), Failure("status"), ScrapeDown, DownloadDown,
     SubmitDown}
NetEnv == TransportTurns \cup {ScrapeUp, SubmitNext}

\* submissions and what the endpoint answers
SubmitArray == Submission(Text("/s"), "ok", Body("nonobject", "absent", <<>>))
SubmitForged ==
    Turn("ok",
         Reply(Act("submit_answer",
                   [submit_url |-> Text("/s"),
                    answer_payload |->
                        Dict([answer |-> Num("42"), email |-> Word("x@y.z"),
                              url |-> Text("http://q/b")])])),
         "ok", {}, Body("object", "false", <<>>))
SubmitTurns ==
    {SubmitWrong, SubmitNext, SubmitLast, SubmitRedirect, SubmitGarbled,
     SubmitArray, SubmitDown, SubmitForged}

\* a note is read back
ReadNote == Answer("read_file", [filename |-> Word("notes.txt")], "ok")
FileTurns == {ReadNote, WriteNote, SubmitNext}

\* url parameters under the four wrappings of the arguments
Wrapped(tool, wrapping, parameters, net) ==
    Turn("ok",
         Reply(Dict([k \in {"tool", wrapping} |->
                        IF k = "tool" THEN Word(tool) ELSE Dict(parameters)])),
         net, {}, NoBody)
DownloadNetloc ==
    Wrapped("download_and_read_file", "args", [url |-> Text("//r/f")], "fail")
ScrapeFtp ==
    Turn("ok",
         Reply(Dict([tool |-> Word("scrape_website"),
                     url |-> Text("ftp://r/f")])),
         "ok", {}, NoBody)
ScrapeAbsolute ==
    Wrapped("scrape_website", "kwargs", [url |-> Text("http://q/f")], "ok")
DownloadHttpd ==
    Answer("download_and_read_file", [url |-> Text("httpd/f")], "fail")
UrlTurns ==
    {ScrapeUp, DownloadNetloc, ScrapeFtp, ScrapeAbsolute, DownloadHttpd,
     SubmitWrong, SubmitNext}

\* downloads: the url asked for and what the content type declares
Download(url, ctype) ==
    Turn("ok", Reply(Act("download_and_read_file", [url |-> Text(url)])),
         "ok", ctype, NoBody)
DownloadScript == Download("f", {"javascript"})
DownloadCsvB == Download("http://q/b", {"csv"})
DownloadCsvF == Download("f", {"csv"})
DownloadJson == Download("http://q/f", {"json"})
DownloadPlain == Download("f", {"text/plain"})
DownloadBinary == Download("f", {})
DownloadCsvAsPlain == Download("http://q/f.csv", {"text/plain"})
DownloadCsvAsBinary == Download("http://q/f.csv", {})
DownloadTurns ==
    {DownloadScript, DownloadCsvB, DownloadCsvF, DownloadJson, DownloadPlain,
     DownloadBinary, DownloadCsvAsPlain, DownloadCsvAsBinary, SubmitNext}

\* code to run: as a string, as a file, as both, as neither
RunCode(parameters, net) == Answer("run_python_code", parameters, net)
RunString == RunCode([code_string |-> Word("print(1)")], "ok")
RunStringFails == RunCode([code_string |-> Word("print(1)")], "fail")
RunStringExits == RunCode([code_string |-> Word("print(1)")], "exit")
RunFile == RunCode([filename |-> Word("notes.txt")], "ok")
RunFileFails == RunCode([filename |-> Word("notes.txt")], "fail")
RunBoth ==
    RunCode([code_string |-> Word("print(1)"),
             filename |-> Word("notes.txt")], "ok")
RunNeither == RunCode(<<>>, "ok")
PythonTurns ==
    {RunString, RunStringFails, RunStringExits, RunFile, RunFileFails,
     RunBoth, RunNeither, WriteNote, SubmitNext}

\* actions that name the tool and wrap its parameters in several ways
Decision(action) == Turn("ok", Reply(Dict(action)), "ok", {}, NoBody)
Note == Dict([filename |-> Word("notes.txt")])
Other == Dict([filename |-> Word("other.txt")])
BothIds ==
    Decision([tool |-> Word("write_to_file"), type |-> Word("read_file"),
              parameters |-> Dict([filename |-> Word("notes.txt"),
                                   content |-> Word("GOAL=sum")])])
EmptyTool ==
    Decision([tool |-> Word(""), type |-> Word("read_file"), args |-> Note])
TypeOnly == Decision([type |-> Word("read_file"), kwargs |-> Note])
AllWrappings ==
    Decision([tool |-> Word("read_file"), kwargs |-> Other, args |-> Other,
              parameters |-> Note])
ArgsAndKwargs ==
    Decision([tool |-> Word("read_file"), kwargs |-> Other, args |-> Note])
Bare == Decision([tool |-> Word("read_file"), filename |-> Word("notes.txt")])
ParametersNull ==
    Decision([tool |-> Word("read_file"), parameters |-> None, args |-> Note])
EmptyIds ==
    Decision([tool |-> Word(""), type |-> None, parameters |-> Note])
NormalTurns ==
    {BothIds, EmptyTool, TypeOnly, AllWrappings, ArgsAndKwargs, Bare,
     ParametersNull, EmptyIds, NoToolKey}
NormalEnv == NormalTurns \cup {SubmitNext}

\* the turns of the dispatcher environment
ShortTurns == {SubmitNext, SubmitGarbled, SubmitLast}

Scripts(turns, n) == UNION {[1..k -> turns] : k \in 1..n}

Task(email, secret, url) == [email |-> email, secret |-> secret, url |-> url]
Tasks ==
    {Task("a@b.c", MY_SECRET, Chars("http://q/a/")),
     Task("x@y.z", MY_SECRET, Chars("http://q/b")),
     Task("a@b.c", "guess", Chars("http://q/a/"))}

\* a single request, accepted or refused
OneTask ==
    {<<Task("a@b.c", MY_SECRET, Chars("http://q/a/"))>>,
     <<Task("a@b.c", "guess", Chars("http://q/a/"))>>}

\* two requests, both accepted
TwoTasks ==
    {<<Task("a@b.c", MY_SECRET, Chars("http://q/a/")),
       Task("x@y.z", MY_SECRET, Chars("http://q/b"))>>}

InitWith(turns, n, requests) ==
    /\ now = 0
    /\ script \in Scripts(turns, n)
    /\ inbound \in requests
    /\ responses = <<>>
    /\ runs = <<>>
    /\ files = <<>>

\* one request, the loop-control environment
Init == InitWith(LoopTurns, MaxScript, OneTask)
Spec == Init /\ [][Next]_vars

\* the statements of the runs: a thread that can take its next statement,
\* a request that was sent and a tool that was called all get their turn
Progress ==
    \E i \in RunIds :
        \/ InitialScrape(i)
        \/ LoopTop(i)
        \/ ModelResponse(i)
        \/ ToolReturn(i)
        \/ ChildReturn(i)

\* one request, failed requests, wrong answers and answers naming a next url
SubmitAgain ==
    Submission(Text("http://q/s"), "ok", Body("object", "false", <<>>))
LiveTurns == {Failure("transport"), SubmitAgain, SubmitNext}
InitLive == InitWith(LiveTurns, 2, OneTask)
SpecLive == InitLive /\ [][Next]_vars /\ WF_vars(Progress)

\* one request, malformed model turns
InitModel == InitWith(ModelTurns, MaxScript, OneTask)
SpecModel == InitModel /\ [][Next]_vars

\* one request, decisions naming unknown tools
InitUnknown == InitWith(UnknownEnv, MaxScript, OneTask)
SpecUnknown == InitUnknown /\ [][Next]_vars

\* one request, decisions with dispatch errors
InitShape == InitWith(ShapeEnv, MaxScript, OneTask)
SpecShape == InitShape /\ [][Next]_vars

\* one request, transport errors
InitNet == InitWith(NetEnv, MaxScript, OneTask)
SpecNet == InitNet /\ [][Next]_vars

\* one request, submissions
InitSubmit == InitWith(SubmitTurns, MaxScript, OneTask)
SpecSubmit == InitSubmit /\ [][Next]_vars

\* one request, a note written and read along a chain
InitFiles == InitWith(FileTurns, 3, OneTask)
SpecFiles == InitFiles /\ [][Next]_vars

\* one request, url parameters
InitUrl == InitWith(UrlTurns, MaxScript, OneTask)
SpecUrl == InitUrl /\ [][Next]_vars

\* one request, downloads
InitDownload == InitWith(DownloadTurns, MaxScript, OneTask)
SpecDownload == InitDownload /\ [][Next]_vars

\* one request, code to run
InitPython == InitWith(PythonTurns, MaxScript, OneTask)
SpecPython == InitPython /\ [][Next]_vars

\* one request, actions to normalise
InitNormal == InitWith(NormalEnv, MaxScript, OneTask)
SpecNormal == InitNormal /\ [][Next]_vars

\* two requests, a note written and read by each run before it submits
InitShared ==
    /\ now = 0
    /\ script = <<WriteNote, ReadNote, SubmitNext>>
    /\ inbound \in TwoTasks
    /\ responses = <<>>
    /\ runs = <<>>
    /\ files = <<>>
SpecShared == InitShared /\ [][Next]_vars

\* two requests, short runs
InitDispatcher == InitWith(ShortTurns, 1, [1..2 -> Tasks])
SpecDispatcher == InitDispatcher /\ [][Next]_vars

(***************************************************************************)
(* Properties                                                              *)
(***************************************************************************)
UserTurns(h) == Cardinality({k \in DOMAIN h : h[k].role = "user"})
ModelTurnsIn(h) == Cardinality({k \in DOMAIN h : h[k].role = "model"})
Kinds(h) == {h[k].obs.kind : k \in DOMAIN h}
Children(rs, i) == {c \in DOMAIN rs : rs[c].parent = i}

\* run i takes a step
Moves(i) == runs'[i] # runs[i]

\* run i receives the submission endpoint's decoded answer in this step
Resolves(i) ==
    /\ runs[i].pc = "in_tool"
    /\ runs'[i].pc # "in_tool"
    /\ runs'[i].observation.kind = "submit_response"
    /\ runs'[i].observation.resp.json = "object"

\* C1 as stated: a run that is stopped by the step bound has made exactly
\* max_steps = 15 iterations of the reasoning loop.
C1_FifteenIterations ==
    \A i \in RunIds :
        runs[i].exit = "exhausted" => UserTurns(runs[i].history) = max_steps

\* C1, amended: no run makes more than max_steps - 1 = 14 iterations of the
\* reasoning loop, and a run stopped by the step bound has made exactly 14,
\* each with one request to the backend, after its one initial scrape (the
\* scrape is step 1 of the 15).
C1_StepBound ==
    \A i \in RunIds :
        /\ runs[i].requests <= 14
        /\ UserTurns(runs[i].history) = runs[i].requests
        /\ runs[i].exit = "exhausted" =>
              /\ runs[i].requests = 14
              /\ runs[i].step = 14
              /\ runs[i].scrapes = 1

C1_Witness ==
    \E i \in RunIds :
        /\ runs[i].exit = "exhausted"
        /\ {"llm_error", "submit_response"} \subseteq Kinds(runs[i].history)

\* C2: at an iteration boundary of a run with a deadline, once the clock is
\* past the deadline the run's next step ends it, with no request to the
\* backend and no tool call; a finished run does nothing more.
C2_Deadline ==
    [][\A i \in DOMAIN runs :
          /\ (runs[i].pc = "top" /\ runs[i].deadline # 0
                /\ now > runs[i].deadline /\ Moves(i)) =>
                 /\ runs'[i].pc = "done"
                 /\ runs'[i].requests = runs[i].requests
                 /\ runs'[i].calls = runs[i].calls
                 /\ runs'[i].history = runs[i].history
          /\ runs[i].pc = "done" => ~Moves(i)]_vars

C2_Witness ==
    \E i \in RunIds :
        /\ runs[i].exit = "deadline"
        /\ runs[i].observation.kind = "submit_response"
        /\ "llm_error" \in Kinds(runs[i].history)

\* C3: when the submission endpoint answers correct = true with a next url,
\* exactly one run is started for that url with the same email and secret
\* and a deadline later than the time of spawning, and the submitting run
\* makes no request, tool call or further spawn afterwards.
C3_Chain ==
    [][\A i \in DOMAIN runs :
          /\ (Resolves(i) /\ runs'[i].observation.resp.correct = "true"
                /\ runs'[i].observation.resp.url # <<>>) =>
                 /\ Len(runs') = Len(runs) + 1
                 /\ Children(runs', i) = {Len(runs')}
                 /\ runs'[Len(runs')].url = runs'[i].observation.resp.url
                 /\ runs'[Len(runs')].email = runs[i].email
                 /\ runs'[Len(runs')].secret = runs[i].secret
                 /\ runs'[Len(runs')].deadline > now
                 /\ runs'[Len(runs')].pc = "scheduled"
                 /\ runs'[i].pc = "in_child"
          /\ runs[i].pc \in {"in_child", "done"} =>
                 /\ runs'[i].pc \in {"in_child", "done"}
                 /\ runs'[i].requests = runs[i].requests
                 /\ runs'[i].calls = runs[i].calls
                 /\ Children(runs', i) = Children(runs, i)]_vars

C3_Witness ==
    \E i, c \in RunIds :
        /\ runs[c].parent = i
        /\ runs[i].observation.resp.correct = "true"
        /\ runs[c].url = Chars("http://q/b")
        /\ runs[c].pc = "done"
        /\ runs[i].pc = "done"

\* C4: when the submission endpoint answers correct = false without a url,
\* the run neither ends nor spawns; it returns to the head of the loop, and
\* the user turn of its next iteration carries that response.
C4_Retry ==
    [][\A i \in DOMAIN runs :
          /\ (Resolves(i) /\ runs'[i].observation.resp.correct # "true"
                /\ runs'[i].observation.resp.url = <<>>) =>
                 /\ runs'[i].pc = "top"
                 /\ runs'[i].exit = ""
                 /\ Len(runs') = Len(runs)
          /\ (runs[i].pc = "top" /\ runs'[i].pc = "awaiting_model") =>
                 runs'[i].history =
                     Append(runs[i].history, UserTurn(runs[i].observation))]_vars

C4_Witness ==
    \E i \in RunIds :
        /\ runs[i].pc = "awaiting_model"
        /\ runs[i].history[Len(runs[i].history)].obs.kind = "submit_response"
        /\ runs[i].history[Len(runs[i].history)].obs.resp.correct = "false"
        /\ Len(runs) = 1

\* C5: in an iteration whose model turn is malformed no tool is called, the
\* observation becomes an error text, the iteration counts against the step
\* bound, and the run goes back to the head of the loop.
C5_Malformed ==
    [][\A i \in DOMAIN runs :
          (runs[i].pc = "awaiting_model" /\ Moves(i)
             /\ TurnAt(runs[i].step) \in MalformedTurns) =>
              /\ runs'[i].pc = "top"
              /\ runs'[i].exit = ""
              /\ runs'[i].calls = runs[i].calls
              /\ runs'[i].observation.kind \in {"llm_error", "action_error"}
              /\ runs'[i].step = runs[i].step
              /\ runs'[i].requests = runs[i].step
              /\ runs'[i].step <= 14]_vars

C5_Witness ==
    \E i \in RunIds :
        /\ runs[i].pc = "top"
        /\ runs[i].observation.kind = "action_error"
        /\ "llm_error" \in Kinds(runs[i].history)
        /\ runs[i].calls = 0
        /\ runs[i].step = 14

\* C6: a decision naming a tool that is not registered calls no tool, yields
\* an observation naming that tool, adds one user turn and one model turn to
\* the history in its iteration, and leaves the run in the loop.
C6_UnknownTool ==
    [][\A i \in DOMAIN runs :
          (runs[i].pc = "awaiting_model" /\ Moves(i)
             /\ TurnAt(runs[i].step) \in UnknownTurns) =>
              LET reply == TurnAt(runs[i].step).reply
                  name  == IF Has(reply.d["action"], "tool")
                               THEN reply.d["action"].d["tool"]
                               ELSE reply.d["action"].d["type"]
                  h     == runs[i].history
              IN  /\ runs'[i].pc = "top"
                  /\ runs'[i].exit = ""
                  /\ runs'[i].calls = runs[i].calls
                  /\ runs'[i].observation.kind = "unknown_tool"
                  /\ runs'[i].observation.word = name.s
                  /\ runs'[i].observation.text = name.u
                  /\ runs'[i].history = Append(h, ModelTurn(reply))
                  /\ h[Len(h)].role = "user"
                  /\ UserTurns(runs'[i].history) = runs[i].step]_vars

C6_Witness ==
    \E i \in RunIds :
        /\ runs[i].pc = "top"
        /\ runs[i].observation.kind = "unknown_tool"
        /\ runs[i].observation.word = "browse"
        /\ Len(runs[i].history) = 5

\* C7: a request whose secret differs from the configured one is answered
\* 403 and no run exists for it: every run was started for an accepted
\* request or by another run.
C7_Denied ==
    /\ \A k \in DOMAIN responses :
          responses[k].task.secret # "s3cret" =>
              responses[k].status = 403 /\ responses[k].run = 0
    /\ \A i \in RunIds : runs[i].secret = "s3cret"
    /\ Cardinality(Children(runs, 0)) =
          Cardinality({k \in DOMAIN responses : responses[k].status = 200})

C7_Witness ==
    /\ inbound = <<>>
    /\ Len(responses) = 2
    /\ responses[1].status = 403
    /\ responses[2].status = 200
    /\ \A i \in RunIds : runs[i].pc = "done"

\* C8: a request with the configured secret is answered 200 with the fixed
\* acknowledgment in the step that schedules exactly one run with its
\* email, secret and url and deadline = now + 170; the run has not started
\* then, and no response is changed afterwards.
C8_Accepted ==
    [][/\ (Len(responses') = Len(responses) + 1
            /\ responses'[Len(responses')].task.secret = "s3cret") =>
              LET a == responses'[Len(responses')]
                  c == runs'[Len(runs')]
              IN  /\ a.status = 200
                  /\ a.detail = "Task accepted. Processing in background."
                  /\ Len(runs') = Len(runs) + 1
                  /\ \A i \in DOMAIN runs : ~Moves(i)
                  /\ a.run = Len(runs')
                  /\ c.email = a.task.email
                  /\ c.secret = a.task.secret
                  /\ c.url = a.task.url
                  /\ c.deadline = now + 170
                  /\ c.parent = 0
                  /\ c.pc = "scheduled"
       /\ \A k \in DOMAIN responses : responses'[k] = responses[k]]_vars

C8_Witness ==
    /\ Len(responses) = 2
    /\ responses[1].status = 200
    /\ responses[2].status = 200
    /\ responses[2].task.email = "x@y.z"
    /\ runs[responses[1].run].exit = "fatal"
    /\ runs[responses[2].run].pc = "scheduled"

\* C9 as stated: a transport error of the reasoning backend, the scrape
\* target, the download target or the submission endpoint becomes an error
\* observation and the run returns to the head of the loop.
C9_TransportContinues ==
    [][\A i \in DOMAIN runs :
          /\ (runs[i].pc = "awaiting_model" /\ Moves(i)
                /\ TurnAt(runs[i].step).llm \in {"transport", "status"}) =>
                 /\ runs'[i].pc = "top"
                 /\ runs'[i].observation.kind = "llm_error"
          /\ (runs[i].pc = "in_tool" /\ Moves(i)
                /\ TurnAt(runs[i].step).net = "fail") =>
                 /\ runs'[i].pc = "top"
                 /\ runs'[i].observation.kind \in
                        {"scrape_error", "download_error", "submit_error"}]_vars

\* C10 as stated: a dispatch error of any tool, submit_answer included,
\* becomes an error observation and the run returns to the head of the
\* loop; it never ends the run.
C10_DispatchErrorsContinue ==
    [][\A i \in DOMAIN runs :
          (runs[i].pc \in {"awaiting_model", "in_tool"} /\ Moves(i)
             /\ TurnAt(runs[i].step) \in DispatchErrorTurns) =>
              /\ runs'[i].pc \in {"in_tool", "top"}
              /\ runs'[i].pc = "top" =>
                     runs'[i].observation.kind \in
                         {"action_error", "scrape_error", "download_error",
                          "read_error", "write_error", "submit_error"}]_vars

\* C11: when the text submit_answer returns does not decode to a JSON object
\* (an error text, undecodable text, or JSON that is not an object), the run
\* ends in that step as fatal: no run is started, no request follows, and a
\* finished run never acts again.
C11_Fatal ==
    [][\A i \in DOMAIN runs :
          /\ (runs[i].pc = "in_tool" /\ Moves(i)
                /\ runs[i].call.tool = Word("submit_answer")
                /\ runs'[i].observation.resp.json # "object") =>
                 /\ runs'[i].pc = "done"
                 /\ runs'[i].exit = "fatal"
                 /\ runs'[i].spawned = 0
                 /\ Len(runs') = Len(runs)
                 /\ runs'[i].requests = runs[i].requests
          /\ runs[i].exit = "fatal" =>
                 /\ runs'[i] = runs[i]
                 /\ Children(runs', i) = {}]_vars

C11_Witness ==
    \E i \in RunIds :
        /\ runs[i].exit = "fatal"
        /\ runs[i].observation.kind = "submit_response"
        /\ runs[i].observation.resp.json = "nonobject"
        /\ "submit_response" \in Kinds(runs[i].history)

\* C12 as stated: every step a run has completed has added exactly two
\* entries to its history, so at the head of the loop after step k the
\* history holds the system turn and 2k further entries.
C12_TwoPerStep ==
    \A i \in RunIds :
        runs[i].pc = "top" => Len(runs[i].history) = 1 + 2 * runs[i].step

\* C12, amended: the history starts with the one system turn and holds no
\* other; a step never changes or removes an entry; an iteration appends a
\* user turn carrying the current observation, and then, only when the
\* backend's reply decodes, a model turn carrying that reply: an iteration
\* whose request or reply fails leaves the user turn alone in the history.
C12_History ==
    [][\A i \in DOMAIN runs :
          LET h  == runs[i].history
              h2 == runs'[i].history
              turn == TurnAt(runs[i].step)
          IN  /\ Len(h2) >= Len(h)
              /\ SubSeq(h2, 1, Len(h)) = h
              /\ h2 # <<>> =>
                     /\ h2[1] = SystemTurn
                     /\ \A k \in 2..Len(h2) : h2[k].role \in {"user", "model"}
              /\ (runs[i].pc = "top" /\ runs'[i].pc = "awaiting_model") =>
                     h2 = Append(h, UserTurn(runs[i].observation))
              /\ (runs[i].pc = "awaiting_model" /\ Moves(i)) =>
                     /\ h[Len(h)].role = "user"
                     /\ IF turn.llm = "ok"
                            THEN h2 = Append(h, ModelTurn(turn.reply))
                            ELSE h2 = h
              /\ (runs[i].pc \in {"in_tool", "in_child", "done"}
                    \/ runs'[i].pc = "done") => h2 = h]_vars

C12_Witness ==
    \E i \in RunIds :
        LET h == runs[i].history
        IN  /\ runs[i].pc = "top"
            /\ \E k \in 2..(Len(h) - 1) :
                   h[k].role = "user" /\ h[k + 1].role = "user"
            /\ \E k \in 2..(Len(h) - 1) :
                   h[k].role = "user" /\ h[k + 1].role = "model"
            /\ Len(h) < 1 + 2 * runs[i].step

\* C13: when the submission endpoint's answer decodes, a run is started in
\* that step if and only if the answer carries a url, whatever `correct` is:
\* correct = false with a url starts the successor and ends the run,
\* correct = true without a url ends it with no successor; a run has at most
\* one successor, and once it has one it makes no request and calls no tool.
C13_SpawnIffUrl ==
    [][\A i \in DOMAIN runs :
          /\ Resolves(i) =>
                LET resp == runs'[i].observation.resp
                IN  /\ Len(runs') = Len(runs) + 1 <=> resp.url # <<>>
                    /\ Len(runs') = Len(runs) <=> resp.url = <<>>
                    /\ resp.url # <<>> =>
                           /\ Children(runs', i) = {Len(runs')}
                           /\ runs'[Len(runs')].url = resp.url
                           /\ runs'[i].pc = "in_child"
                           /\ runs'[i].spawned = 1
                    /\ resp.url = <<>> => Children(runs', i) = {}
                    /\ (resp.correct = "true" /\ resp.url = <<>>) =>
                           runs'[i].pc = "done" /\ runs'[i].exit = "complete"
                    /\ (resp.correct = "false" /\ resp.url # <<>>) =>
                           runs'[i].exit = "redirect"
          /\ Cardinality(Children(runs', i)) <= 1
          /\ Children(runs, i) # {} =>
                 /\ runs'[i].pc \in {"in_child", "done"}
                 /\ runs'[i].requests = runs[i].requests
                 /\ runs'[i].calls = runs[i].calls
                 /\ runs'[i].history = runs[i].history]_vars

C13_Witness ==
    \E i, c \in RunIds :
        /\ runs[c].parent = i
        /\ runs[i].observation.resp.correct = "false"
        /\ runs[i].exit = "redirect"
        /\ runs[i].pc = "done"
        /\ runs[i].requests >= 2
        /\ runs[c].pc = "done"

\* C14 as stated: every payload submit_answer has POSTed carries the email,
\* the secret and the task url of the run that sent it, whatever the answer
\* payload of the model holds.
C14_OwnIdentity ==
    \A i \in RunIds :
        runs[i].sent # None =>
            /\ Get(runs[i].sent, "email") = Word(runs[i].email)
            /\ Get(runs[i].sent, "secret") = Word(runs[i].secret)
            /\ Get(runs[i].sent, "url") = TextOf(runs[i].url)

\* C15 as stated: a successor has the email and secret of its predecessor,
\* the url the endpoint named and a deadline 170 s after its spawning; its
\* history and step count start afresh; and nothing its predecessor
\* produced, stored files included, reaches its observations.
C15_NothingShared ==
    \A c \in RunIds :
        runs[c].parent # 0 =>
            LET p == runs[runs[c].parent]
                h == runs[c].history
            IN  /\ runs[c].email = p.email
                /\ runs[c].secret = p.secret
                /\ runs[c].url = p.observation.resp.url
                /\ runs[c].deadline = runs[c].born + 170
                /\ runs[c].pc = "scheduled" =>
                       h = <<>> /\ runs[c].step = 0 /\ runs[c].requests = 0
                /\ runs[c].pc # "scheduled" =>
                       /\ h[1] = SystemTurn
                       /\ UserTurns(h) = runs[c].requests
                       /\ runs[c].requests <= 14
                /\ runs[c].observation.src \in {0, c}
                /\ \A k \in DOMAIN h : h[k].obs.src \in {0, c}

\* C16 as stated: when scrape_website, download_and_read_file or
\* submit_answer is called, its url parameter (url, submit_url) is the
\* model's parameter itself when that is an absolute url (it has a scheme),
\* and otherwise the parameter resolved against the task url of the run,
\* under each of the wrappings parameters, args, kwargs and none.
C16_Resolved ==
    [][\A i \in DOMAIN runs :
          (runs[i].pc = "awaiting_model" /\ runs'[i].pc = "in_tool"
             /\ runs'[i].call.tool \in
                    {Word("scrape_website"), Word("download_and_read_file"),
                     Word("submit_answer")}) =>
              LET action == Get(TurnAt(runs[i].step).reply, "action")
                  wrapping ==
                      IF Has(action, "parameters") THEN "parameters"
                      ELSE IF Has(action, "args") THEN "args"
                      ELSE IF Has(action, "kwargs") THEN "kwargs"
                      ELSE "none"
                  given == IF wrapping = "none" THEN action
                           ELSE Get(action, wrapping)
                  key == IF runs'[i].call.tool = Word("submit_answer")
                             THEN "submit_url" ELSE "url"
                  u == Get(given, key).u
              IN  Get(runs'[i].call.args, key) =
                      IF SchemeLen(u) > 0 THEN TextOf(u)
                      ELSE TextOf(urljoin(runs[i].url, u))]_vars

\* the url names a .csv file
IsCsvUrl(u) ==
    Len(u) >= 4 /\ SubSeq(u, Len(u) - 3, Len(u)) = <<".", "c", "s", "v">>

\* C17 as stated: a download that is a script, CSV, JSON or plain text is
\* stored under the one fixed name of its category (temp_utils.js,
\* temp_data.csv, temp_data.json, temp_log.txt) and under no other; in
\* particular the download of a .csv is always stored as temp_data.csv.
C17_FixedName ==
    [][\A i \in DOMAIN runs :
          (runs[i].pc = "in_tool" /\ Moves(i)
             /\ runs[i].call.tool = Word("download_and_read_file")
             /\ TurnAt(runs[i].step).net = "ok") =>
              LET ctype == TurnAt(runs[i].step).ctype
                  url == Get(runs[i].call.args, "url").u
                  name == IF IsCsvUrl(url) \/ "csv" \in ctype
                              THEN "temp_data.csv"
                          ELSE IF "javascript" \in ctype THEN "temp_utils.js"
                          ELSE IF "json" \in ctype THEN "temp_data.json"
                          ELSE IF "text/plain" \in ctype THEN "temp_log.txt"
                          ELSE ""
              IN  name # "" =>
                     /\ runs'[i].observation.kind = "saved"
                     /\ runs'[i].observation.word = name
                     /\ DOMAIN files' = DOMAIN files \cup {Word(name)}
                     /\ files'[Word(name)].by = i]_vars

\* C18 as stated: run_python_code called with neither or with both of
\* code_string and filename runs nothing and returns its error text; called
\* with one of them it runs that mode; and whatever happens while running,
\* the tool returns a text and the run goes on at the head of the loop.
C18_ExactlyOne ==
    [][\A i \in DOMAIN runs :
          (runs[i].pc = "in_tool" /\ Moves(i)
             /\ runs[i].call.tool = Word("run_python_code")) =>
              LET code_string == Truthy(Get(runs[i].call.args, "code_string"))
                  filename == Truthy(Get(runs[i].call.args, "filename"))
                  kind == runs'[i].observation.kind
              IN  /\ runs'[i].pc = "top"
                  /\ (code_string <=> filename) => kind = "no_code"
                  /\ (code_string /\ ~filename) =>
                         kind \in {"code_executed", "code_error"}
                  /\ (filename /\ ~code_string) =>
                         kind \in {"file_executed", "file_exec_error"}]_vars

\* C19: the deadline is looked at only at the head of the loop: a step that
\* answers a model request or returns from a tool does the same after the
\* deadline as before it (a failed request goes back to the head of the
\* loop, a decision is dispatched, a wrong answer is retried, an answer
\* naming a url starts the successor with deadline now + 170), and a run
\* ends by deadline only from the head of the loop.
C19_Cooperative ==
    [][\A i \in DOMAIN runs :
          /\ (runs[i].pc \in {"awaiting_model", "in_tool"} /\ Moves(i)
                /\ now > runs[i].deadline) =>
                 LET turn == TurnAt(runs[i].step)
                     resp == runs'[i].observation.resp
                 IN  /\ runs'[i].exit # "deadline"
                     /\ runs[i].pc = "awaiting_model" =>
                            IF turn.llm = "ok"
                                THEN /\ runs'[i].pc = "in_tool"
                                     /\ runs'[i].calls = runs[i].calls + 1
                                ELSE /\ runs'[i].pc = "top"
                                     /\ runs'[i].observation.kind = "llm_error"
                     /\ (runs[i].pc = "in_tool" /\ turn = WriteNote) =>
                            /\ runs'[i].pc = "top"
                            /\ Word("notes.txt") \in DOMAIN files'
                            /\ files'[Word("notes.txt")].by = i
                     /\ (Resolves(i) /\ resp.url # <<>>) =>
                            /\ Len(runs') = Len(runs) + 1
                            /\ runs'[Len(runs')].parent = i
                            /\ runs'[Len(runs')].url = resp.url
                            /\ runs'[Len(runs')].deadline = now + 170
                            /\ runs'[i].pc = "in_child"
                     /\ (Resolves(i) /\ resp.url = <<>>) =>
                            runs'[i].pc =
                                IF resp.correct = "true" THEN "done" ELSE "top"
          /\ (runs'[i].exit = "deadline" /\ runs[i].exit # "deadline") =>
                 runs[i].pc = "top" /\ now > runs[i].deadline]_vars

C19_Witness ==
    \E i, c \in RunIds :
        /\ runs[c].parent = i
        /\ runs[c].born > runs[i].deadline
        /\ runs[c].deadline = runs[c].born + 170
        /\ "llm_error" \in Kinds(runs[i].history)
        /\ runs[c].requests >= 1

\* C20: the first step of a run scrapes its task url once, with no request
\* to the backend; whether the scrape succeeds or fails the run goes to the
\* head of the loop with the scrape's text as observation, and the first
\* request carries the system turn and that observation only; no further
\* implicit scrape is made.
C20_InitialScrape ==
    [][\A i \in DOMAIN runs' :
          /\ runs'[i].pc = "scheduled" =>
                 runs'[i].scrapes = 0 /\ runs'[i].requests = 0
          /\ runs'[i].pc # "scheduled" => runs'[i].scrapes = 1
          /\ (i \in DOMAIN runs /\ runs[i].pc = "scheduled" /\ Moves(i)) =>
                 /\ runs'[i].pc = "top"
                 /\ runs'[i].exit = ""
                 /\ runs'[i].requests = 0
                 /\ runs'[i].calls = 0
                 /\ runs'[i].observation.kind \in {"html", "scrape_error"}
                 /\ runs'[i].observation.text = runs[i].url
          /\ runs'[i].requests >= 1 =>
                 /\ runs'[i].history[1] = SystemTurn
                 /\ runs'[i].history[2].role = "user"
                 /\ runs'[i].history[2].obs.kind \in {"html", "scrape_error"}
                 /\ runs'[i].history[2].obs.text = runs'[i].url]_vars

C20_Witness ==
    \E i \in RunIds :
        /\ runs[i].requests >= 2
        /\ runs[i].history[2].obs.kind = "scrape_error"
        /\ ModelTurnsIn(runs[i].history) >= 1
        /\ runs[i].scrapes = 1

\* C21: in a run a request to the backend is made only at the head of the
\* loop with no tool outstanding, one per iteration; a tool is called only
\* in the step that appends the model turn of that iteration, for the
\* action that turn carries, at most once per request; and an iteration
\* whose model turn fails calls no tool, whatever action an earlier
\* iteration left behind.
C21_Sequential ==
    [][\A i \in DOMAIN runs :
          LET h2 == runs'[i].history
              turn == TurnAt(runs[i].step)
          IN  /\ runs'[i].requests \in {runs[i].requests, runs[i].requests + 1}
              /\ runs'[i].calls \in {runs[i].calls, runs[i].calls + 1}
              /\ runs'[i].requests = runs[i].requests + 1 =>
                     /\ runs[i].pc = "top" /\ runs'[i].pc = "awaiting_model"
                     /\ runs[i].call = NoCall
                     /\ runs'[i].step = runs[i].step + 1
                     /\ runs'[i].calls = runs[i].calls
              /\ runs'[i].calls = runs[i].calls + 1 =>
                     /\ runs[i].pc = "awaiting_model"
                     /\ runs'[i].pc = "in_tool"
                     /\ turn.llm = "ok"
                     /\ h2 = Append(runs[i].history, ModelTurn(turn.reply))
              /\ runs'[i].pc = "in_tool" =>
                     LET action == Get(h2[Len(h2)].json, "action")
                     IN  /\ h2[Len(h2)].role = "model"
                         /\ runs'[i].action_obj = action
                         /\ runs'[i].call.tool =
                                IF Truthy(Get(action, "tool"))
                                    THEN Get(action, "tool")
                                    ELSE Get(action, "type")
              /\ runs'[i].pc # "in_tool" => runs'[i].call = NoCall
              /\ runs'[i].calls <= runs'[i].requests
              /\ runs'[i].requests <= runs'[i].step
              /\ (runs[i].pc = "awaiting_model" /\ Moves(i)
                    /\ turn.llm # "ok") =>
                     /\ runs'[i].pc = "top"
                     /\ runs'[i].calls = runs[i].calls
                     /\ files' = files]_vars

C21_Witness ==
    \E i \in RunIds :
        /\ runs[i].pc = "top"
        /\ runs[i].observation.kind = "llm_error"
        /\ ToolName(runs[i].action_obj) = Word("write_to_file")
        /\ runs[i].calls = 1
        /\ runs[i].step = 2

\* C22: the tool called is the one named by `tool` when that key holds a
\* non-empty value and by `type` otherwise; its arguments are the value of
\* `parameters` when that key is present, else of `args`, else of `kwargs`,
\* else the action itself; an action that names no tool under either key
\* gives an error observation and no call.
C22_Precedence ==
    [][\A i \in DOMAIN runs :
          (runs[i].pc = "awaiting_model" /\ Moves(i)
             /\ TurnAt(runs[i].step) \in NormalTurns) =>
              LET action == TurnAt(runs[i].step).reply.d["action"]
                  keys == DOMAIN action.d
                  id == IF "tool" \in keys /\ action.d["tool"] # Word("")
                            THEN action.d["tool"]
                        ELSE IF "type" \in keys THEN action.d["type"]
                        ELSE None
                  given == IF "parameters" \in keys THEN action.d["parameters"]
                           ELSE IF "args" \in keys THEN action.d["args"]
                           ELSE IF "kwargs" \in keys THEN action.d["kwargs"]
                           ELSE action
              IN  IF id \in {None, Word("")}
                      THEN /\ runs'[i].pc = "top"
                           /\ runs'[i].observation.kind = "action_error"
                           /\ runs'[i].calls = runs[i].calls
                  ELSE IF given = None
                      THEN /\ runs'[i].pc = "top"
                           /\ runs'[i].observation.kind = "action_error"
                  ELSE /\ runs'[i].pc = "in_tool"
                       /\ runs'[i].call = [tool |-> id, args |-> given]]_vars

C22_Witness ==
    \E i \in RunIds :
        /\ runs[i].pc = "in_tool"
        /\ TurnAt(runs[i].step) = AllWrappings
        /\ runs[i].call.args = Note
        /\ "action_error" \in Kinds(runs[i].history)

\* C23: the runs of two accepted tasks share no loop state: a step changes
\* the frame of one run only (and may add the frame of its successor), and
\* each task's run has its own deadline, 170 s after its acceptance.  They
\* share the file store: a write replaces the file of that name whoever
\* wrote it, and a read returns what the last writer left, so that (the
\* witness) a run reads under the name it wrote the content of the other.
C23_SharedFiles ==
    [][/\ \A i, j \in DOMAIN runs : (Moves(i) /\ Moves(j)) => i = j
       /\ \A i \in DOMAIN runs' :
              runs'[i].parent = 0 =>
                  runs'[i].deadline = runs'[i].born + 170
       /\ \A i \in DOMAIN runs :
              LET turn == TurnAt(runs[i].step)
                  name == Word("notes.txt")
              IN  /\ (runs[i].pc = "in_tool" /\ Moves(i) /\ turn = WriteNote) =>
                         /\ files'[name] = Content(i, <<"GOAL=sum">>)
                         /\ runs'[i].observation.kind = "written"
                  /\ (runs[i].pc = "in_tool" /\ Moves(i) /\ turn = ReadNote) =>
                         /\ files' = files
                         /\ IF name \in DOMAIN files
                                THEN /\ runs'[i].observation.kind = "file_content"
                                     /\ runs'[i].observation.src = files[name].by
                                ELSE runs'[i].observation.kind = "read_error"]_vars

C23_Witness ==
    \E i, j \in RunIds :
        /\ i # j
        /\ runs[i].parent = 0 /\ runs[j].parent = 0
        /\ runs[i].pc = "top"
        /\ runs[i].observation.kind = "file_content"
        /\ runs[i].observation.src = j
        /\ "written" \in Kinds(runs[i].history)
        /\ runs[j].pc # "done"

C25_Finishes ==
    /\ \A i \in 1..MaxRuns :
           (i \in RunIds) ~> (i \in RunIds /\ runs[i].pc = "done")
    /\ (runs # <<>>) ~> (\A i \in RunIds : runs[i].pc = "done")

C25_Witness ==
    /\ Len(runs) = MaxRuns
    /\ \A i \in RunIds : runs[i].pc = "done"
    /\ \A i \in RunIds : i > 1 => runs[i].parent = i - 1
    /\ runs[Len(runs)].exit = "complete"
    /\ runs[Len(runs)].spawned = 0
    /\ "llm_error" \in Kinds(runs[1].history)

====
